---- MODULE Spec2Model ----
(***************************************************************************)
(* Model of kramerius.py: the Kramerius class (range detection, batch      *)
(* download with first-page removal, merge) and its two entry points: the  *)
(* __main__ block, which binds the module-level name `limit`, and a plain  *)
(* import of the class, which does not.                                    *)
(***************************************************************************)
EXTENDS Integers, Sequences, FiniteSets, TLC

\* ---- bounds of the model ----
MaxStart == 2
MaxPage == 12
MaxLimit == 4
MaxDetected == 2
MaxPdftkFailures == 1

\* ---- Python values: None, int, str (a str is its sequence of byte codes) ----
PyNone == [t |-> "none", v |-> <<>>]
PyInt(n) == [t |-> "int", v |-> <<n>>]
PyStr(s) == [t |-> "str", v |-> s]

RECURSIVE Str(_)
\* str(n) for n >= 0: decimal digits, no padding
Str(n) == IF n < 10 THEN <<48 + n>> ELSE Str(n \div 10) \o <<48 + (n % 10)>>

RECURSIVE ParseDigits(_)
ParseDigits(s) ==
    IF Len(s) = 0 THEN 0
    ELSE ParseDigits(SubSeq(s, 1, Len(s) - 1)) * 10 + (s[Len(s)] - 48)

\* truth value of a Python object as used by `or`
Truthy(a) ==
    CASE a.t = "none" -> FALSE
      [] a.t = "int" -> a.v[1] # 0
      [] a.t = "str" -> Len(a.v) > 0

\* variant: the second operand wins whenever it is set
Or_PreferSecond(a, b) == IF Truthy(b) THEN b ELSE a

\* a or b
Or(a, b) == IF Truthy(a) THEN a ELSE b

\* int(a) is defined for int and for digit strings; int(None) raises TypeError
IntRaises(a) == a.t = "none"
IntOf(a) == IF a.t = "int" THEN a.v[1] ELSE ParseDigits(a.v)

\* ---- file names ----
PdfExt == <<46, 112, 100, 102>>

\* os.path.join(self.directory, str(start)), relative to the directory
RawName(start) == Str(start)
\* file_path + '.pdf'
PdfName(start) == RawName(start) \o PdfExt

\* the shell pattern *.pdf
MatchesPdfGlob(name) ==
    /\ Len(name) >= Len(PdfExt)
    /\ SubSeq(name, Len(name) - Len(PdfExt) + 1, Len(name)) = PdfExt

RECURSIVE LexLess(_, _)
\* byte-wise lexical order of two names, as the shell sorts a glob expansion
LexLess(a, b) ==
    IF Len(a) = 0 THEN Len(b) > 0
    ELSE IF Len(b) = 0 THEN FALSE
    ELSE IF a[1] # b[1] THEN a[1] < b[1]
    ELSE LexLess(Tail(a), Tail(b))

RECURSIVE SortFiles(_)
SortFiles(S) ==
    IF S = {} THEN <<>>
    ELSE LET m == CHOOSE f \in S : \A g \in S \ {f} : LexLess(f.name, g.name)
         IN <<m>> \o SortFiles(S \ {m})

\* pdfunite {dir}/*.pdf : the matching files in glob order
GlobPdf(dir) == SortFiles({f \in dir : MatchesPdfGlob(f.name)})

\* creating a file replaces any file of that name
WriteFile(dir, f) == {g \in dir : g.name # f.name} \cup {f}

VARIABLES
    entry,        \* "script": run via __main__ ; "import": class used from another module
    globalLimit,  \* module-level binding of the name `limit`: {} when unbound, {n} when bound
    self,         \* the instance: start, end, limit
    detail,       \* what the detail page held, once requested: start and end fields
    detailRequests, \* number of GETs of the detail page
    start,        \* run(): local start (Python value)
    end,          \* run(): local end (Python value)
    pages,        \* run(): pages
    nbatches,     \* run(): length of range(...) at line 129
    x,            \* run(): loop variable
    batch,        \* arguments (start, end) of the __download_pdf call in progress
    requests,     \* (start, end) of every download request issued, in order
    scratch,      \* files in self.directory
    pdftkCalls,   \* invocations of CMD_REMOVE_FIRST_PAGE
    uniteCalls,   \* invocations of PDF_UNITE_FORMAT
    output,       \* content of the output file, as the sequence of merged artifacts
    pc,           \* control point in run()
    failure       \* the exception that ended run(), if any

vars == <<entry, globalLimit, self, detail, detailRequests, start, end, pages,
          nbatches, x, batch, requests, scratch, pdftkCalls, uniteCalls,
          output, pc, failure>>

NoFailure == [stage |-> "", reason |-> ""]
NoBatch == <<0, 0>>
NoDetail == [start |-> {}, end |-> {}]

\* values docopt hands over for --from / --to: None or the digit string typed
ScriptBounds(max) == {PyNone} \cup {PyStr(Str(n)) : n \in 1..max}
\* values a caller of the constructor passes (documented type: int)
ImportBounds(max) == {PyNone} \cup {PyInt(n) : n \in 1..max}

\* arguments within the bounds of the model
BoundedArgs(e) ==
    [start : IF e = "script" THEN ScriptBounds(MaxStart) ELSE ImportBounds(MaxStart),
     end : IF e = "script" THEN ScriptBounds(MaxPage) ELSE ImportBounds(MaxPage),
     limit : 1..MaxLimit]

\* the arguments --from=1 --to=25 --limit=10, on the command line or as ints
ExampleArgs(e) ==
    {[start |-> IF e = "script" THEN PyStr(Str(1)) ELSE PyInt(1),
      end |-> IF e = "script" THEN PyStr(Str(25)) ELSE PyInt(25),
      limit |-> 10]}

\* __main__ (lines 209-222) or an importing caller of __init__ (lines 75-104)
Init ==
    /\ entry \in {"script", "import"}
    /\ self \in BoundedArgs(entry) \cup ExampleArgs(entry)
    /\ globalLimit = IF entry = "script" THEN {self.limit} ELSE {}
    /\ detail = NoDetail
    /\ detailRequests = 0
    /\ start = PyNone
    /\ end = PyNone
    /\ pages = 0
    /\ nbatches = 0
    /\ x = 0
    /\ batch = NoBatch
    /\ requests = <<>>
    /\ scratch = {}
    /\ pdftkCalls = <<>>
    /\ uniteCalls = <<>>
    /\ output = <<>>
    /\ pc = "run"
    /\ failure = NoFailure

Raise(stage, reason) ==
    /\ pc' = "failed"
    /\ failure' = [stage |-> stage, reason |-> reason]

NeedsDetection == self.start.t = "none" \/ self.end.t = "none"

\* run() lines 117-120 with __detect_pages (lines 148-156)
detect_pages ==
    /\ pc = "run"
    /\ NeedsDetection
    /\ detailRequests' = detailRequests + 1
    /\ \/ /\ Raise("detect", "transport")
          /\ UNCHANGED <<detail, start, end>>
       \/ \E ms \in {{}} \cup {{n} : n \in 1..MaxDetected},
             me \in {{}} \cup {{n} : n \in 1..MaxDetected} :
            /\ detail' = [start |-> ms, end |-> me]
            /\ IF ms = {} \/ me = {}
               THEN /\ Raise("detect", "patternNotFound")
                    /\ UNCHANGED <<start, end>>
               ELSE /\ start' = PyInt(CHOOSE n \in ms : TRUE)
                    /\ end' = PyInt(CHOOSE n \in me : TRUE)
                    /\ pc' = "resolve"
                    /\ UNCHANGED failure
    /\ UNCHANGED <<entry, globalLimit, self, pages, nbatches, x, batch,
                   requests, scratch, pdftkCalls, uniteCalls, output>>

\* run() line 117 false branch
skip_detection ==
    /\ pc = "run"
    /\ ~NeedsDetection
    /\ pc' = "resolve"
    /\ UNCHANGED <<entry, globalLimit, self, detail, detailRequests, start, end,
                   pages, nbatches, x, batch, requests, scratch, pdftkCalls,
                   uniteCalls, output, failure>>

\* run() lines 123-125
resolve_range ==
    /\ pc = "resolve"
    /\ LET s == Or(self.start, start)
           e == Or(self.end, end)
       IN IF IntRaises(s) \/ IntRaises(e)
          THEN /\ Raise("resolve", "TypeError")
               /\ UNCHANGED <<start, end, pages>>
          ELSE /\ start' = PyInt(IntOf(s))
               /\ end' = PyInt(IntOf(e))
               /\ pages' = IntOf(e) - IntOf(s) + 1
               /\ pc' = "plan"
               /\ UNCHANGED failure
    /\ UNCHANGED <<entry, globalLimit, self, detail, detailRequests, nbatches,
                   x, batch, requests, scratch, pdftkCalls, uniteCalls, output>>

\* (pages + limit - 1) // limit
BatchCount(p, limit) == (p + limit - 1) \div limit
\* len(range(n))
RangeLen(n) == IF n > 0 THEN n ELSE 0

\* run() line 129: the name `limit` is looked up in the module's globals
plan_batches ==
    /\ pc = "plan"
    /\ IF globalLimit = {}
       THEN /\ Raise("plan", "NameError")
            /\ UNCHANGED <<nbatches, x>>
       ELSE LET limit == CHOOSE n \in globalLimit : TRUE
            IN /\ nbatches' = RangeLen(BatchCount(pages, limit))
               /\ x' = 0
               /\ pc' = "loop"
               /\ UNCHANGED failure
    /\ UNCHANGED <<entry, globalLimit, self, detail, detailRequests, start, end,
                   pages, batch, requests, scratch, pdftkCalls, uniteCalls, output>>

\* variant: the loop stops one iteration short
LoopDone_Early(i, n) == i >= n - 1

\* the for loop over range(n) is exhausted after n iterations
LoopDone(i, n) == i >= n

\* variant: zero-based first page
TStart_ZeroBased(i, limit) == i * limit

\* run() line 130
TStart(i, limit) == 1 + i * limit

\* variant: the last batch is not clipped to the page count
TEnd_NoClip(i, limit, p) == (i + 1) * limit

\* run() lines 130-131
TEnd(i, limit, p) == IF (i + 1) * limit < p THEN (i + 1) * limit ELSE p

\* the server prepends one page to every batch it returns (docstring, line 161)
RawFile(s, e) == [name |-> RawName(s), lead |-> 1, first |-> s, count |-> e - s + 1]

\* run() lines 130-133 and __download_pdf lines 173-188
download_pdf ==
    /\ pc = "loop"
    /\ ~LoopDone(x, nbatches)
    /\ LET limit == CHOOSE n \in globalLimit : TRUE
           tstart == TStart(x, limit)
           tend == TEnd(x, limit, pages)
       IN /\ batch' = <<tstart, tend>>
          /\ requests' = Append(requests, <<tstart, tend>>)
          /\ \/ /\ Raise("fetch", "transport")
                /\ UNCHANGED scratch
             \/ /\ Raise("fetch", "transport")
                /\ scratch' = WriteFile(scratch, [RawFile(tstart, tend) EXCEPT !.count = 0])
             \/ /\ scratch' = WriteFile(scratch, RawFile(tstart, tend))
                /\ pc' = "pdftk"
                /\ UNCHANGED failure
    /\ UNCHANGED <<entry, globalLimit, self, detail, detailRequests, start, end,
                   pages, nbatches, x, pdftkCalls, uniteCalls, output>>

PdftkFailures == Cardinality({i \in 1..Len(pdftkCalls) : pdftkCalls[i].exit # 0})

\* end=end - start + 2 (line 193)
CatEnd(s, e) == e - s + 2

\* pdftk {input} cat 2-{end} output {output}: needs `end` pages in the input
PdftkCanCat(raw, last) == 2 <= last /\ last <= raw.lead + raw.count

\* the output holds pages 2..last of the input: the leading page is dropped
PdftkCat(raw, last, out) ==
    [name |-> out, lead |-> 0,
     first |-> IF raw.lead = 1 THEN raw.first ELSE raw.first + 1,
     count |-> last - 1]

\* __download_pdf lines 190-194; the value of os.system is discarded
remove_first_page ==
    /\ pc = "pdftk"
    /\ LET s == batch[1]
           e == batch[2]
           raw == CHOOSE f \in scratch : f.name = RawName(s)
           last == CatEnd(s, e)
           call(code) == [input |-> RawName(s), from |-> 2, to |-> last,
                          output |-> PdfName(s), exit |-> code]
       IN \/ /\ PdftkCanCat(raw, last)
             /\ pdftkCalls' = Append(pdftkCalls, call(0))
             /\ scratch' = WriteFile(scratch, PdftkCat(raw, last, PdfName(s)))
          \/ /\ PdftkFailures < MaxPdftkFailures
             /\ pdftkCalls' = Append(pdftkCalls, call(1))
             /\ UNCHANGED scratch
    /\ pc' = "remove"
    /\ UNCHANGED <<entry, globalLimit, self, detail, detailRequests, start, end,
                   pages, nbatches, x, batch, requests, uniteCalls, output, failure>>

\* __download_pdf lines 195-196 and the loop's next iteration (line 129)
remove_raw ==
    /\ pc = "remove"
    /\ scratch' = {f \in scratch : f.name # RawName(batch[1])}
    /\ x' = x + 1
    /\ pc' = "loop"
    /\ UNCHANGED <<entry, globalLimit, self, detail, detailRequests, start, end,
                   pages, nbatches, batch, requests, pdftkCalls, uniteCalls,
                   output, failure>>

\* run() lines 136-138 with __merge_pdfs (lines 205-206); the return code is discarded
merge_pdfs ==
    /\ pc = "loop"
    /\ LoopDone(x, nbatches)
    /\ LET inputs == GlobPdf(scratch)
       IN \/ /\ inputs # <<>>
             /\ uniteCalls' = Append(uniteCalls, [inputs |-> inputs, exit |-> 0])
             /\ output' = inputs
          \/ /\ uniteCalls' = Append(uniteCalls, [inputs |-> inputs, exit |-> 1])
             /\ UNCHANGED output
    /\ pc' = "done"
    /\ UNCHANGED <<entry, globalLimit, self, detail, detailRequests, start, end,
                   pages, nbatches, x, batch, requests, scratch, pdftkCalls, failure>>

Next ==
    \/ detect_pages
    \/ skip_detection
    \/ resolve_range
    \/ plan_batches
    \/ download_pdf
    \/ remove_first_page
    \/ remove_raw
    \/ merge_pdfs

Spec == Init /\ [][Next]_vars

\* ---- vocabulary of the properties ----

\* lines 123-125 have been executed without an exception
Resolved ==
    \/ pc \in {"plan", "loop", "pdftk", "remove", "done"}
    \/ pc = "failed" /\ failure.stage \in {"plan", "fetch"}

\* line 129 has been executed (or has raised)
PlanAttempted ==
    \/ pc \in {"loop", "pdftk", "remove", "done"}
    \/ pc = "failed" /\ failure.stage \in {"plan", "fetch"}

\* the for loop of run() has run to its end
FetchLoopFinished == pc = "done" \/ (pc = "loop" /\ x >= nbatches)

\* ceil(total / limit), as the least k with k * limit >= total
CeilDiv(total, limit) == CHOOSE k \in 0..total : k * limit >= total /\ (k - 1) * limit < total

\* the page number a supplied bound denotes
Supplied(b) ==
    IF b.t = "int" THEN b.v[1]
    ELSE CHOOSE n \in 0..99 : Str(n) = b.v

\* C1: in a run whose fetch loop runs to its end over a range of total >= 1
\* pages, the (firstPage, lastPage) pairs handed to the download step start at
\* 1, are contiguous and non-empty, end at total and number ceil(total/limit);
\* at any moment the pairs issued so far are a contiguous prefix starting at 1.
C1_BatchesPartitionRange ==
    /\ requests # <<>> => requests[1][1] = 1
    /\ \A i \in 1..Len(requests) :
        /\ requests[i][1] <= requests[i][2]
        /\ requests[i][2] - requests[i][1] + 1 <= self.limit
        /\ i < Len(requests) => requests[i][2] + 1 = requests[i + 1][1]
    /\ (FetchLoopFinished /\ pages >= 1) =>
        /\ Len(requests) = CeilDiv(pages, self.limit)
        /\ requests[Len(requests)][2] = pages

C1_Witness ==
    /\ pc = "done"
    /\ Len(requests) >= 3
    /\ requests[Len(requests)][2] - requests[Len(requests)][1] + 1 < self.limit

C2_Inputs ==
    /\ self.start.t # "none" /\ Supplied(self.start) = 1
    /\ self.end.t # "none" /\ Supplied(self.end) = 25
    /\ self.limit = 10

\* C2 as stated: from=1, to=25, limit=10 gives the wire parameters
\* (1,10), (1,10), (1,5), then one assembly invocation.
C2_LocalNumberingRestarts ==
    (C2_Inputs /\ pc = "done") =>
        /\ requests = << <<1, 10>>, <<1, 10>>, <<1, 5>> >>
        /\ Len(uniteCalls) = 1

\* C2 amended: a run with from=1, to=25, limit=10 that ends in success has
\* issued exactly the requests (1,10), (11,20), (21,25) in that order and then
\* exactly one assembly invocation; started from the command line, such a run
\* ends otherwise than in success only by a transport error.
C2_WindowNumbering ==
    C2_Inputs =>
        /\ pc = "done" =>
            /\ requests = << <<1, 10>>, <<11, 20>>, <<21, 25>> >>
            /\ Len(uniteCalls) = 1
        /\ (entry = "script" /\ pc = "failed") => failure.reason = "transport"

C2_Witness == C2_Inputs /\ pc = "done" /\ Len(requests) = 3

\* position of the pipeline: stage, then iteration, then step within it
StageOf(p) ==
    CASE p = "run" -> 0
      [] p = "resolve" -> 1
      [] p = "plan" -> 2
      [] p \in {"loop", "pdftk", "remove"} -> 3
      [] p = "done" -> 4
      [] p = "failed" -> 5
StepOf(p) == CASE p = "loop" -> 0 [] p = "pdftk" -> 1 [] p = "remove" -> 2 [] OTHER -> 0

C3_State ==
    /\ \A i, j \in 1..Len(requests) : i < j => requests[i][1] < requests[j][1]
    /\ pc = "loop" => Len(requests) = x /\ Len(pdftkCalls) = x
    /\ pc = "pdftk" => Len(requests) = x + 1 /\ Len(pdftkCalls) = x
    /\ pc = "remove" => Len(requests) = x + 1 /\ Len(pdftkCalls) = x + 1
    /\ Len(uniteCalls) <= 1
    /\ pc = "done" <=> Len(uniteCalls) = 1
    /\ Len(uniteCalls) = 1 =>
        /\ Len(requests) = nbatches
        /\ Len(pdftkCalls) = nbatches
        /\ \A f \in scratch : MatchesPdfGlob(f.name)

C3_Step ==
    /\ \/ StageOf(pc') > StageOf(pc)
       \/ /\ StageOf(pc') = 3 /\ StageOf(pc) = 3
          /\ \/ x' > x
             \/ x' = x /\ StepOf(pc') > StepOf(pc)
    /\ Len(requests') >= Len(requests)
    /\ SubSeq(requests', 1, Len(requests)) = requests
    /\ Len(requests') <= Len(requests) + 1

\* C3: batches are fetched one at a time in strictly increasing firstPage
\* order, each at most once and all of them before the single assembler
\* invocation, which happens only after the last fetch has completed and is
\* followed by Done; every step moves the pipeline forward.
C3_SinglePassInOrder == [](C3_State) /\ [][C3_Step]_vars

C3_Witness == pc = "done" /\ Len(requests) >= 2 /\ Len(uniteCalls) = 1

\* C4: a failed fetch of batch i (transport error or non-zero exit of the
\* page-removal utility) is the last fetch, and the assembler is never invoked.
C4_FetchFailureHalts ==
    /\ (pc = "failed" /\ failure.stage = "fetch") => uniteCalls = <<>>
    /\ \A i \in 1..Len(pdftkCalls) :
        pdftkCalls[i].exit # 0 =>
            /\ Len(requests) <= i
            /\ uniteCalls = <<>>
            /\ pc # "done"

\* C5: a resolved range with total < 1 issues no download request, never
\* invokes the assembler and does not end in success.
C5_InvalidRangeRejected ==
    (Resolved /\ pages < 1) =>
        /\ requests = <<>>
        /\ uniteCalls = <<>>
        /\ pc # "done"

\* C6: the range is resolved before any download request; with both bounds
\* supplied the detail page is never requested and the range is the supplied
\* one; otherwise the detail page is requested exactly once, supplied bounds
\* are kept and missing ones take the detected value; a field missing from
\* the detail page ends the run before any batch is fetched.
C6_RangeResolution ==
    /\ detailRequests <= 1
    /\ requests # <<>> => Resolved
    /\ ~NeedsDetection =>
        /\ detailRequests = 0
        /\ Resolved => /\ start = PyInt(Supplied(self.start))
                       /\ end = PyInt(Supplied(self.end))
    /\ (NeedsDetection /\ pc # "run") => detailRequests = 1
    /\ (NeedsDetection /\ Resolved) =>
        /\ detail.start # {} /\ detail.end # {}
        /\ start = IF self.start.t = "none"
                   THEN PyInt(CHOOSE n \in detail.start : TRUE)
                   ELSE PyInt(Supplied(self.start))
        /\ end = IF self.end.t = "none"
                 THEN PyInt(CHOOSE n \in detail.end : TRUE)
                 ELSE PyInt(Supplied(self.end))
    /\ (NeedsDetection /\ pc # "run" /\ (detail.start = {} \/ detail.end = {})) =>
        /\ pc = "failed"
        /\ requests = <<>>
        /\ uniteCalls = <<>>

C6_Witness ==
    /\ Resolved
    /\ self.start.t = "none" /\ self.end.t # "none"
    /\ detailRequests = 1
    /\ end # PyInt(CHOOSE n \in detail.end : TRUE)
    /\ requests # <<>>

\* C7: the artifacts, in the order the concatenation step takes them, are in
\* the order of their batches' firstPage.
C7_GlobOrderIsPageOrder ==
    LET files == GlobPdf(scratch)
    IN \A i, j \in 1..Len(files) : i < j => files[i].first < files[j].first

\* C8: a non-zero exit of the concatenation utility ends the run in Failed;
\* Done is reached only when assembly succeeded.
C8_AssemblyFailureFailsRun ==
    \A i \in 1..Len(uniteCalls) :
        /\ uniteCalls[i].exit # 0 => pc = "failed"
        /\ pc = "done" => uniteCalls[i].exit = 0

\* C9: once planning has been attempted, the batch count and every batch's
\* bounds are those given by the constructor's limit and the resolved range,
\* whether or not a module-level `limit` is bound.
C9_PlanUsesConfiguredLimit ==
    PlanAttempted =>
        /\ failure.reason # "NameError"
        /\ nbatches = RangeLen(BatchCount(pages, self.limit))
        /\ \A i \in 1..Len(requests) :
            requests[i] = <<TStart(i - 1, self.limit), TEnd(i - 1, self.limit, pages)>>

\* C10: when the fetch of batch (s, e) has returned, the page-removal utility
\* has been invoked once for it, on the raw file with pages 2..(e - s + 2), the
\* raw file is gone, and the artifact '<s>.pdf' with e - s + 1 pages and no
\* leading page is what the fetch added: the scratch directory holds exactly
\* one artifact per fetched batch.
C10_FetchLeavesOnlyArtifact ==
    (pc = "loop" /\ x >= 1) =>
        LET s == batch[1]
            e == batch[2]
            call == pdftkCalls[Len(pdftkCalls)]
        IN /\ Len(pdftkCalls) = x
           /\ call.input = RawName(s) /\ call.output = PdfName(s)
           /\ call.from = 2 /\ call.to = e - s + 2
           /\ \A f \in scratch : f.name # RawName(s)
           /\ \E f \in scratch :
                f.name = PdfName(s) /\ f.lead = 0 /\ f.first = s /\ f.count = e - s + 1
           /\ {f.name : f \in scratch} = {PdfName(requests[i][1]) : i \in 1..x}

====
